---- MODULE Spec2Model ----
(***************************************************************************)
(* Model of streamlit.py: the melanoma SLN metastasis predictor.           *)
(*                                                                         *)
(* The script is re-executed top to bottom by the Streamlit server on      *)
(* every interaction of every browser session.  One script run is:         *)
(*   load_model(MODEL_PATH) through st.cache_resource, st.stop() when it   *)
(*   returned None, the form, and - when the form was submitted - the      *)
(*   construction of input_data, model.predict_proba and the threshold.    *)
(*                                                                         *)
(* Probabilities and slider values are scaled by 10 (0.5 is 5, 4.0 is 40). *)
(***************************************************************************)
EXTENDS Integers, Sequences, FiniteSets

\* ------------------------------------------------------------------ bounds
NumSessions == 2      \* browser sessions running the script concurrently
MaxLoads == 2         \* deserialisation passes the model lets load_model make

Sessions == 1..NumSessions

\* --------------------------------------------------------------- constants
MODEL_PATH == "best_mlp_model.pkl"
ALTERNATIVE_MODEL_PATH == "nnet_style_model.pkl"

\* The loading attempts of load_model in the order the code makes them:
\*   1 joblib.load(model_path), 2 pickle.load(open(model_path)),
\*   3 joblib.load(ALTERNATIVE_MODEL_PATH)
Candidates == 1..3
CandidatePath(c) == IF c = 3 THEN ALTERNATIVE_MODEL_PATH ELSE MODEL_PATH
CandidateFormat(c) == IF c = 2 THEN "pickle" ELSE "joblib"

\* What one loading attempt can produce: an exception, or a value.
\*   "clf"       an object that has predict_proba
\*   "junk"      an object without predict_proba that is no dict
\*   "dict_clf"  {'model': clf}
\*   "dict_junk" {'model': junk}
Exceptions == {"FileNotFoundError", "UnpicklingError"}
Values == {"clf", "junk", "dict_clf", "dict_junk"}
Outcomes == Exceptions \cup Values
\* every way the three attempts can turn out, each read on its own
Assignments == [Candidates -> Outcomes]

\* A model file as a deployment leaves it: absent, not a pickle at all, or a
\* value written by pickle.dump / joblib.dump, or by joblib.dump(compress=..)
FileKinds ==
    {[kind |-> "missing", value |-> ""], [kind |-> "garbage", value |-> ""]}
      \cup [kind : {"plain", "compressed"}, value : Values]
\* the files at the two paths the code names
FileSystems == [{MODEL_PATH, ALTERNATIVE_MODEL_PATH} -> FileKinds]

\* joblib.load(path): reads plain pickles and its own compressed files
joblib_load(file) ==
    CASE file.kind = "missing" -> "FileNotFoundError"
      [] file.kind = "garbage" -> "UnpicklingError"
      [] OTHER -> file.value
\* open(path, 'rb') and pickle.load(f): a compressed file is no pickle stream
pickle_load(file) ==
    CASE file.kind = "missing" -> "FileNotFoundError"
      [] file.kind \in {"garbage", "compressed"} -> "UnpicklingError"
      [] OTHER -> file.value
\* the outcomes of the three attempts on the file system fs
Reads(fs) ==
    [c \in Candidates |->
        IF CandidateFormat(c) = "joblib" THEN joblib_load(fs[CandidatePath(c)])
                                         ELSE pickle_load(fs[CandidatePath(c)])]

Raises(o) == o \in Exceptions
\* hasattr(model, 'predict_proba')
hasattr_predict_proba(v) == v = "clf"
\* isinstance(loaded_data, dict) and 'model' in loaded_data
isinstance_dict_with_model(v) == v \in {"dict_clf", "dict_junk"}
\* loaded_data['model']
getitem_model(v) == IF v = "dict_clf" THEN "clf" ELSE "junk"

\* The Python None, and a model instance: the object deserialised from
\* candidate cand by the load-th execution of load_model's body.
NoneVal == [cand |-> 0, load |-> 0]
Instance(c, n) == [cand |-> c, load |-> n]

NoValidModel == "No valid model found"

\* load_model's body on the assignment o of outcomes to the three attempts;
\* n numbers the execution.  ret is the returned value, attempted the
\* attempts made in order, error the text given to st.error ("" if none).
load_model_tryAltFirst(o, n) ==
    IF ~Raises(o[1]) /\ hasattr_predict_proba(o[1])
      THEN [ret |-> Instance(1, n), attempted |-> <<1>>, error |-> ""]
    ELSE IF ~Raises(o[3]) /\ hasattr_predict_proba(o[3])
      THEN [ret |-> Instance(3, n), attempted |-> <<1, 3>>, error |-> ""]
    ELSE IF Raises(o[2])
      THEN [ret |-> NoneVal, attempted |-> <<1, 3, 2>>, error |-> o[2]]
    ELSE IF isinstance_dict_with_model(o[2])
            /\ hasattr_predict_proba(getitem_model(o[2]))
      THEN [ret |-> Instance(2, n), attempted |-> <<1, 3, 2>>, error |-> ""]
    ELSE [ret |-> NoneVal, attempted |-> <<1, 3, 2>>, error |-> NoValidModel]

\* the capability check applied to the value or, for a mapping, to its 'model'
unwrapped_has_predict_proba(v) ==
    \/ hasattr_predict_proba(v)
    \/ isinstance_dict_with_model(v) /\ hasattr_predict_proba(getitem_model(v))

load_model_unwrapsEverywhere(o, n) ==
    IF ~Raises(o[1]) /\ unwrapped_has_predict_proba(o[1])
      THEN [ret |-> Instance(1, n), attempted |-> <<1>>, error |-> ""]
    ELSE IF Raises(o[2])
      THEN [ret |-> NoneVal, attempted |-> <<1, 2>>, error |-> o[2]]
    ELSE IF unwrapped_has_predict_proba(o[2])
      THEN [ret |-> Instance(2, n), attempted |-> <<1, 2>>, error |-> ""]
    ELSE IF ~Raises(o[3]) /\ unwrapped_has_predict_proba(o[3])
      THEN [ret |-> Instance(3, n), attempted |-> <<1, 2, 3>>, error |-> ""]
    ELSE [ret |-> NoneVal, attempted |-> <<1, 2, 3>>, error |-> NoValidModel]

load_model(o, n) ==
    \* try: joblib.load(model_path); bare except: pass
    IF ~Raises(o[1]) /\ hasattr_predict_proba(o[1])
      THEN [ret |-> Instance(1, n), attempted |-> <<1>>, error |-> ""]
    \* open(model_path) / pickle.load raise into the outer except
    ELSE IF Raises(o[2])
      THEN [ret |-> NoneVal, attempted |-> <<1, 2>>, error |-> o[2]]
    ELSE IF isinstance_dict_with_model(o[2])
            /\ hasattr_predict_proba(getitem_model(o[2]))
      THEN [ret |-> Instance(2, n), attempted |-> <<1, 2>>, error |-> ""]
    \* try: joblib.load(ALTERNATIVE_MODEL_PATH); bare except: pass
    ELSE IF ~Raises(o[3]) /\ hasattr_predict_proba(o[3])
      THEN [ret |-> Instance(3, n), attempted |-> <<1, 2, 3>>, error |-> ""]
    \* raise Exception("No valid model found"), caught by the outer except
    ELSE [ret |-> NoneVal, attempted |-> <<1, 2, 3>>, error |-> NoValidModel]

\* ------------------------------------------------- st.cache_resource (l.30)
\* The resource cache of load_model, keyed by the call's argument; it lives
\* in the server process and is shared by every session.
EmptyCache == [k \in {} |-> NoneVal]
CacheHit_never(c, key) == FALSE
CacheHit(c, key) == key \in DOMAIN c
CacheWrite(c, key, v) == [k \in DOMAIN c \cup {key} |-> IF k = key THEN v ELSE c[k]]

\* ------------------------------------------------------------ the form
Choices == {"No", "Yes"}
\* slider positions <<breslow, ki67>>: the defaults 4.0 and 0.0, and another
SliderValues == {<<40, 0>>, <<100, 5>>}
FormValues ==
    {[breslow |-> v[1], ki67 |-> v[2], subungual |-> a, treatment |-> b] :
        v \in SliderValues, a \in Choices, b \in Choices}
NoForm == [breslow |-> -1, ki67 |-> -1, subungual |-> "", treatment |-> ""]

\* 1 if x == "Yes" else 0
Encode(choice) == IF choice = "Yes" THEN 1 ELSE 0

\* pd.DataFrame({...}): one row, the columns in the order of the dict literal
DataFrame(f) ==
    << <<"Subtype", Encode(f.subungual)>>,
       <<"Breslow_Thickness", f.breslow>>,
       <<"Ki67", f.ki67>>,
       <<"Supplementary_Check", Encode(f.treatment)>> >>

expected_columns_swapped == <<"Subtype", "Ki67", "Breslow_Thickness", "Supplementary_Check">>
expected_columns == <<"Subtype", "Breslow_Thickness", "Ki67", "Supplementary_Check">>

\* input_data[expected_columns]
Reindex(df, cols) ==
    [i \in 1..Len(cols) |-> df[CHOOSE j \in 1..Len(df) : df[j][1] = cols[i]]]
ColumnNames(df) == [i \in 1..Len(df) |-> df[i][1]]
RowValues(df) == [i \in 1..Len(df) |-> df[i][2]]
NoData == << >>

\* ------------------------------------------------------- the prediction
\* What model.predict_proba can do: raise, or return rows of probabilities.
ProbaMatrices ==
    { << >>,                      \* zero rows
      << <<10>> >>,               \* one row, one class
      << <<6, 4>> >>,
      << <<5, 5>> >>,
      << <<4, 6>> >>,
      << <<2, 6, 2>> >>,          \* one row, three classes
      << <<6, 4>>, <<4, 6>> >> }  \* two rows
ModelOutputs == [raised : {FALSE}, probs : ProbaMatrices]
                  \cup {[raised |-> TRUE, probs |-> << >>]}

Threshold == 5
RiskLabel_exclusive(probability) ==
    IF probability > Threshold THEN "High Risk" ELSE "Low Risk"
\* if probability >= 0.5: High Risk ... else: Low Risk
RiskLabel(probability) ==
    IF probability >= Threshold THEN "High Risk" ELSE "Low Risk"

\* predicted_probs[0][1] raises IndexError when the row or the entry is absent
IndexError(probs) == Len(probs) < 1 \/ Len(probs[1]) < 2

NoResult == [status |-> "none", probs |-> << >>, probability |-> -1, label |-> ""]
\* the try block of the prediction: the value shown for a model output
Prediction(out) ==
    IF out.raised \/ IndexError(out.probs)
      THEN [status |-> "error", probs |-> out.probs, probability |-> -1, label |-> ""]
      ELSE [status |-> "ok", probs |-> out.probs, probability |-> out.probs[1][2],
            label |-> RiskLabel(out.probs[1][2])]

\* if model is None: st.stop()
AfterLoad_noStop(m) == "form"
AfterLoad(m) == IF m = NoneVal THEN "stopped" ELSE "form"

\* ------------------------------------------------------------------ state
VARIABLES
    cache,       \* st.cache_resource's entries for load_model
    lock,        \* the session computing a missing cache entry, 0 if none
    loads,       \* executions of load_model's body so far
    seen,        \* the outcomes the last execution of the body was given
    attempted,   \* the attempts the last execution made, in order
    error,       \* the text of its st.error, "" if none
    pc,          \* each session's position in its script run
    model,       \* each run's module-level variable model
    form,        \* each run's widget values once submitted
    input_data,  \* each run's DataFrame handed to predict_proba
    result       \* each run's prediction outcome

vars == <<cache, lock, loads, seen, attempted, error, pc, model, form, input_data, result>>

resolverVars == <<cache, lock, loads, seen, attempted, error>>
requestVars == <<form, input_data, result>>

Unread == [c \in Candidates |-> "unread"]

Init ==
    /\ cache = EmptyCache
    /\ lock = 0
    /\ loads = 0
    /\ seen = Unread
    /\ attempted = << >>
    /\ error = ""
    /\ pc = [s \in Sessions |-> "start"]
    /\ model = [s \in Sessions |-> NoneVal]
    /\ form = [s \in Sessions |-> NoForm]
    /\ input_data = [s \in Sessions |-> NoData]
    /\ result = [s \in Sessions |-> NoResult]

\* model = load_model(MODEL_PATH), the entry is cached: the body does not run
LoadHit(s) ==
    /\ pc[s] = "start"
    /\ CacheHit(cache, MODEL_PATH)
    /\ model' = [model EXCEPT ![s] = cache[MODEL_PATH]]
    /\ pc' = [pc EXCEPT ![s] = AfterLoad(cache[MODEL_PATH])]
    /\ UNCHANGED <<resolverVars, requestVars>>

\* model = load_model(MODEL_PATH), no entry: the session takes the cache's
\* computation lock; a session that finds it taken waits
LoadMiss(s) ==
    /\ pc[s] = "start"
    /\ ~CacheHit(cache, MODEL_PATH)
    /\ lock = 0
    /\ loads < MaxLoads
    /\ lock' = s
    /\ pc' = [pc EXCEPT ![s] = "loading"]
    /\ UNCHANGED <<cache, loads, seen, attempted, error, model, requestVars>>

\* the body of load_model runs, its return value is cached, the lock released
LoadCompute(s, o) ==
    /\ pc[s] = "loading"
    /\ lock = s
    /\ LET r == load_model(o, loads + 1) IN
        /\ cache' = CacheWrite(cache, MODEL_PATH, r.ret)
        /\ seen' = o
        /\ attempted' = r.attempted
        /\ error' = r.error
        /\ model' = [model EXCEPT ![s] = r.ret]
        /\ pc' = [pc EXCEPT ![s] = AfterLoad(r.ret)]
    /\ loads' = loads + 1
    /\ lock' = 0
    /\ UNCHANGED requestVars

\* the form is shown and was not submitted: the run ends after the footer
NoSubmit(s) ==
    /\ pc[s] = "form"
    /\ pc' = [pc EXCEPT ![s] = "idle"]
    /\ UNCHANGED <<resolverVars, model, requestVars>>

\* if submitted: input_data is built and reordered, predict_proba is called
Submit(s, f) ==
    /\ pc[s] = "form"
    /\ form' = [form EXCEPT ![s] = f]
    /\ input_data' = [input_data EXCEPT ![s] = Reindex(DataFrame(f), expected_columns)]
    /\ pc' = [pc EXCEPT ![s] = "predicting"]
    /\ UNCHANGED <<resolverVars, model, result>>

Predict_dropsModel(s, out) ==
    /\ pc[s] = "predicting"
    /\ LET r == Prediction(out) IN
        /\ result' = [result EXCEPT ![s] = r]
        /\ pc' = [pc EXCEPT ![s] = IF r.status = "ok" THEN "succeeded" ELSE "failed"]
        /\ cache' = IF r.status = "ok" THEN cache ELSE EmptyCache
    /\ form' = [form EXCEPT ![s] = NoForm]
    /\ input_data' = [input_data EXCEPT ![s] = NoData]
    /\ UNCHANGED <<lock, loads, seen, attempted, error, model>>

\* predict_proba returns or raises; the result or st.error is shown and the
\* run ends after the footer
Predict(s, out) ==
    /\ pc[s] = "predicting"
    /\ LET r == Prediction(out) IN
        /\ result' = [result EXCEPT ![s] = r]
        /\ pc' = [pc EXCEPT ![s] = IF r.status = "ok" THEN "succeeded" ELSE "failed"]
    /\ form' = [form EXCEPT ![s] = NoForm]
    /\ input_data' = [input_data EXCEPT ![s] = NoData]
    /\ UNCHANGED <<resolverVars, model>>

\* the next interaction (or a reload of the page) runs the script again
Rerun(s) ==
    /\ pc[s] \in {"idle", "succeeded", "failed", "stopped"}
    /\ pc' = [pc EXCEPT ![s] = "start"]
    /\ model' = [model EXCEPT ![s] = NoneVal]
    /\ result' = [result EXCEPT ![s] = NoResult]
    /\ UNCHANGED <<resolverVars, form, input_data>>

Next ==
    \/ \E s \in Sessions : LoadHit(s)
    \/ \E s \in Sessions : LoadMiss(s)
    \/ \E s \in Sessions : \E fs \in FileSystems : LoadCompute(s, Reads(fs))
    \/ \E s \in Sessions : NoSubmit(s)
    \/ \E s \in Sessions : \E f \in FormValues : Submit(s, f)
    \/ \E s \in Sessions : \E out \in ModelOutputs : Predict(s, out)
    \/ \E s \in Sessions : Rerun(s)

Spec == Init /\ [][Next]_vars

\* Resolution alone, on every assignment of outcomes to the three attempts
\* (also those only a file replaced between two reads can give): the runs
\* load the model and stop at st.stop() or at the form.
NextResolve ==
    \/ \E s \in Sessions : LoadHit(s)
    \/ \E s \in Sessions : LoadMiss(s)
    \/ \E s \in Sessions : \E o \in Assignments : LoadCompute(s, o)
    \/ \E s \in Sessions : Rerun(s)

SpecResolve == Init /\ [][NextResolve]_vars

\* ------------------------------------------------------------ shorthands
\* load_model's body has run at least once
Resolved == loads > 0
Cached == MODEL_PATH \in DOMAIN cache
\* the candidates whose outcome passes the check the code applies to that
\* candidate: the value itself for joblib, the value under 'model' for pickle
ValidCandidates ==
    {c \in Candidates : IF c = 2 THEN seen[c] = "dict_clf" ELSE seen[c] = "clf"}
FirstValid == CHOOSE c \in ValidCandidates : \A d \in ValidCandidates : c <= d
\* positions of a run that has a model and is past st.stop()
Ready == {"form", "predicting", "succeeded", "failed", "idle"}
\* why a candidate's outcome was not accepted
FailureCause(v) == IF v \in Exceptions THEN v ELSE "lacks predict_proba"
\* the causes the text given to st.error holds: it is one exception's text
ErrorCauses == IF error = "" THEN << >> ELSE <<error>>

\* ------------------------------------------------------------------ claims

C2_FailedResolutionNeverReady ==
    /\ (Resolved /\ Cached /\ ValidCandidates = {}) => cache[MODEL_PATH] = NoneVal
    /\ (Cached /\ cache[MODEL_PATH] = NoneVal) =>
          \A s \in Sessions :
              /\ pc[s] \in {"start", "stopped"}
              /\ model[s] = NoneVal
              /\ input_data[s] = NoData
              /\ result[s] = NoResult

C2_Witness ==
    /\ Resolved /\ Cached /\ ValidCandidates = {}
    /\ cache[MODEL_PATH] = NoneVal
    /\ \A s \in Sessions : pc[s] = "stopped"

\* C3 (as claimed): a candidate's failure never aborts resolution - it fails
\* only after all three candidates were attempted, and succeeds whenever some
\* candidate is valid.
C3_Claim ==
    (Resolved /\ Cached) =>
        /\ cache[MODEL_PATH] = NoneVal => attempted = <<1, 2, 3>>
        /\ ValidCandidates # {} => cache[MODEL_PATH] # NoneVal

\* C4: the label is High Risk when the second entry of the first returned
\* row is >= 0.5 and Low Risk when it is < 0.5; exactly 0.5 gives High Risk.
C4_ThresholdInclusive ==
    \A s \in Sessions :
        result[s].status = "ok" =>
            /\ result[s].probability = result[s].probs[1][2]
            /\ result[s].probability >= 5 => result[s].label = "High Risk"
            /\ result[s].probability < 5 => result[s].label = "Low Risk"

C4_Witness ==
    \E s \in Sessions :
        /\ pc[s] = "succeeded"
        /\ result[s].probs = << <<5, 5>> >>
        /\ result[s].probability = 5
        /\ result[s].label = "High Risk"

\* C5: a failed prediction leaves the cached model as it was; the run that
\* failed still holds that model, can only go on to a new run, and every run
\* that predicts uses the cached instance, which no step replaces.
C5_PredictionFailureIsolated ==
    [][ /\ \A s \in Sessions :
              (pc[s] = "predicting" /\ pc'[s] = "failed") =>
                  /\ cache' = cache
                  /\ model'[s] = model[s]
        /\ \A s \in Sessions :
              pc[s] = "failed" =>
                  /\ Cached /\ cache[MODEL_PATH] = model[s]
                  /\ model[s] # NoneVal
                  /\ cache' = cache
                  /\ pc'[s] \in {"failed", "start"}
        /\ \A s \in Sessions :
              pc'[s] = "predicting" =>
                  /\ MODEL_PATH \in DOMAIN cache'
                  /\ model'[s] = cache'[MODEL_PATH]
                  /\ model'[s] # NoneVal
                  /\ Cached => cache' = cache
      ]_vars

C5_Witness ==
    \E s, t \in Sessions :
        /\ s # t
        /\ pc[s] = "failed" /\ result[s].status = "error"
        /\ pc[t] = "predicting"
        /\ Cached /\ cache[MODEL_PATH] # NoneVal
        /\ model[s] = cache[MODEL_PATH] /\ model[t] = cache[MODEL_PATH]

\* C6: the cache leaves empty at most once: once written its entry never
\* changes, the body of load_model runs only while it is empty (a None is
\* not recomputed), and every run that has loaded holds the cached value.
C6_CacheWrittenOnce ==
    [][ /\ Cached => cache' = cache
        /\ loads' # loads => ~Cached
        /\ \A s \in Sessions :
              pc'[s] \in Ready \cup {"stopped"} =>
                  /\ MODEL_PATH \in DOMAIN cache'
                  /\ model'[s] = cache'[MODEL_PATH]
      ]_vars

C6_Witness ==
    \E s, t \in Sessions :
        /\ s # t
        /\ loads = 1 /\ Cached /\ cache[MODEL_PATH] # NoneVal
        /\ pc[s] = "form" /\ pc[t] = "form"
        /\ model[s] = cache[MODEL_PATH] /\ model[t] = cache[MODEL_PATH]

\* C7: the frame passed to predict_proba has the columns Subtype,
\* Breslow_Thickness, Ki67, Supplementary_Check in that order, the two
\* choices encoded No -> 0 and Yes -> 1, the two sliders unchanged.
C7_FeatureVectorOrder ==
    \A s \in Sessions :
        pc[s] = "predicting" =>
            /\ ColumnNames(input_data[s]) =
                  <<"Subtype", "Breslow_Thickness", "Ki67", "Supplementary_Check">>
            /\ RowValues(input_data[s]) =
                  << IF form[s].subungual = "Yes" THEN 1 ELSE 0,
                     form[s].breslow,
                     form[s].ki67,
                     IF form[s].treatment = "Yes" THEN 1 ELSE 0 >>

C7_Witness ==
    \E s \in Sessions :
        /\ pc[s] = "predicting"
        /\ form[s] = [breslow |-> 40, ki67 |-> 0, subungual |-> "No", treatment |-> "No"]
        /\ RowValues(input_data[s]) = <<0, 40, 0, 0>>

\* C8 (as claimed): a prediction whose model call raised, or returned
\* anything but one row of two probabilities, is an error without a label.
C8_Claim ==
    \A s \in Sessions :
        (/\ result[s].status # "none"
         /\ ~(Len(result[s].probs) = 1 /\ Len(result[s].probs[1]) = 2)) =>
            /\ result[s].status = "error"
            /\ result[s].label = ""

\* C9 (as claimed): when load_model fails, the reported error holds the
\* failure cause of every candidate that was attempted.
C9_Claim ==
    (Resolved /\ Cached /\ cache[MODEL_PATH] = NoneVal) =>
        /\ Len(ErrorCauses) = Len(attempted)
        /\ \A i \in 1..Len(attempted) :
              ErrorCauses[i] = FailureCause(seen[attempted[i]])

====
